---- MODULE Spec2Model ----
(***************************************************************************)
(* A model of @bitcoinerlab/explorer: the RequestQueue that paces the HTTP *)
(* calls of the Esplora client, the ElectrumExplorer socket session and    *)
(* the block status cache of both explorers.                               *)
(*                                                                         *)
(* Every await of the source is a suspension point: a call is a record     *)
(* with a program counter, and one action runs the code between two        *)
(* suspension points, as the single-threaded event loop does.              *)
(***************************************************************************)
EXTENDS Integers, Sequences, FiniteSets, TLC

(***************************************************************************)
(* Bounds of the model.                                                    *)
(***************************************************************************)
\* concurrent RequestQueue.fetch() calls
NumCalls == 2
\* the constructor's maxAttemptsForSoftErrors ranges over 0..MaxSoftBudget
MaxSoftBudget == 3
\* the constructor's maxAttemptsForHardErrors ranges over 0..MaxHardBudget
MaxHardBudget == 2
\* the constructor's maxConcurrentTasks ranges over 1..MaxCeiling
MaxCeiling == 2
\* the constructor's unthrottleAfterOkCount ranges over 1..MaxOkCount
MaxOkCount == 1

\* block heights range over 0..MaxHeight
MaxHeight == 2
\* the constructors' irrevConfThresh ranges over 1..MaxThreshold
MaxThreshold == 2
\* fetchBlockStatus() calls
NumStatusCalls == 2
\* connect() calls of the Electrum explorer, by the user or by a heartbeat
NumConnects == 2
\* heartbeat callbacks of the Electrum explorer
NumTicks == 1
\* connect() calls and heartbeat callbacks in the specification of the
\* heartbeat alone
NumHeartbeatConnects == 4
NumHeartbeatTicks == 2
\* fetchTxHistory() calls of the Esplora explorer
NumHistoryCalls == 1
\* transactions in one page of an Esplora history
MaxPage == 1
\* the Esplora constructor's maxTxPerScriptPubKey
MaxTxPerScriptPubKey == 1
\* #maxTxPerScriptPubKey of the ElectrumExplorer
ElectrumMaxTxPerScriptPubKey == 2

Calls == 1..NumCalls
Heights == 0..MaxHeight
StatusCalls == 1..NumStatusCalls
Connects == 1..NumConnects
Ticks == 1..NumTicks
HeartbeatConnects == 1..NumHeartbeatConnects
HeartbeatTicks == 1..NumHeartbeatTicks
HistoryCalls == 1..NumHistoryCalls

\* #tipBlockHeight before the first header has set it
Undefined == -1
\* #client and #pingInterval when undefined; a client and the interval timer
\* a connect() call creates are named by the call
NoClient == 0
NoTimer == 0

\* HTTP statuses the transport answers with: ok, a client error, not
\* implemented, and the five statuses the queue retries
Statuses == {200, 404, 429, 500, 502, 503, 504}

\* a transport that may answer anything or throw, one that always answers
\* with a status the queue retries, and one that always throws
TransportKinds == {"any", "softErrors", "throws"}
RetriedStatuses == {429, 500, 502, 503, 504}

NoOutcome == [kind |-> "none", status |-> 0, error |-> 0]

VARIABLES
  \* RequestQueue fields
  mustThrottle,
  consecutiveOkResponses,
  unthrottleTimeout,
  concurrentTasks,
  maxAttemptsForSoftErrors,
  maxAttemptsForHardErrors,
  unthrottleAfterOkCount,
  maxConcurrentTasks,
  \* the fetch() calls: where each one is suspended, its two attempt
  \* counters, the transport attempts it has made, how many of them threw
  \* and how it ended
  calls,
  \* how the transport given to the queue behaves
  transport,
  \* which explorer class the instance is
  backend,
  \* fields of both explorers
  irrevConfThresh,
  blockStatusMap,
  \* the fetchBlockStatus() calls
  statusCalls,
  \* ElectrumExplorer fields
  client,
  pingInterval,
  tipBlockHeight,
  \* the ElectrumClient sockets that are open, the clients that carry the
  \* header listener, and the interval timers that have not been cleared
  openClients,
  subscribed,
  liveTimers,
  \* the connect() calls and the heartbeat callbacks
  connects,
  ticks,
  \* the last lifecycle step of the session
  session,
  \* whether a header notification below the tip has been delivered
  lowerHeaderSeen,
  \* EsploraExplorer fields; the cache time is kept as what the code asks of
  \* it: whether it is at most #BLOCK_HEIGHT_CACHE_TIME seconds old
  cachedTipBlockHeight,
  tipBlockHeightCacheTime,
  \* the fetchTxHistory() calls of the Esplora explorer
  historyCalls

queueVars == <<mustThrottle, consecutiveOkResponses, unthrottleTimeout,
               concurrentTasks, maxAttemptsForSoftErrors,
               maxAttemptsForHardErrors, unthrottleAfterOkCount,
               maxConcurrentTasks, calls, transport>>

cacheVars == <<irrevConfThresh, blockStatusMap, statusCalls>>

electrumVars == <<client, pingInterval, tipBlockHeight, openClients,
                  subscribed, liveTimers, connects, ticks, session, lowerHeaderSeen>>

esploraVars == <<cachedTipBlockHeight, tipBlockHeightCacheTime, historyCalls>>

explorerVars == <<backend, cacheVars, electrumVars, esploraVars>>

vars == <<queueVars, explorerVars>>

(***************************************************************************)
(* A specification is about one object: a RequestQueue or an explorer.     *)
(* The other one's variables stay at these values.                         *)
(***************************************************************************)
NoRecord == [blockHeight |-> Undefined, irreversible |-> FALSE, ref |-> 0]

NoStatusCall == [pc |-> "idle", blockHeight |-> 0, kind |-> "none",
                 result |-> NoRecord, tip |-> Undefined, cached |-> FALSE]

NoConnect == [pc |-> "idle", by |-> "none", error |-> "none"]

NoHistoryCall == [pc |-> "idle", page |-> <<>>, lastTxid |-> FALSE,
                  txHistory |-> <<>>, served |-> <<>>, error |-> "none"]

NoTick == [pc |-> "idle", pingInterval |-> NoTimer, end |-> "none",
           interfered |-> FALSE]

\* the fields of an explorer after construction, and its calls
NewExplorerWith(connectCalls, tickCalls) ==
  /\ blockStatusMap = [h \in Heights |-> NoRecord]
  /\ statusCalls = [j \in StatusCalls |-> NoStatusCall]
  /\ client = NoClient
  /\ pingInterval = NoTimer
  /\ tipBlockHeight = Undefined
  /\ openClients = {}
  /\ subscribed = {}
  /\ liveTimers = {}
  /\ connects = [k \in connectCalls |-> NoConnect]
  /\ ticks = [t \in tickCalls |-> NoTick]
  /\ session = "new"
  /\ lowerHeaderSeen = FALSE
  /\ cachedTipBlockHeight = 0
  /\ tipBlockHeightCacheTime = "expired"
  /\ historyCalls = [i \in HistoryCalls |-> NoHistoryCall]

NewExplorer == NewExplorerWith(Connects, Ticks)

NoExplorer ==
  /\ backend = "none"
  /\ irrevConfThresh = 1
  /\ NewExplorer

NoQueue ==
  /\ maxAttemptsForSoftErrors = 0
  /\ maxAttemptsForHardErrors = 0
  /\ unthrottleAfterOkCount = 1
  /\ maxConcurrentTasks = 1
  /\ concurrentTasks = 0
  /\ unthrottleTimeout = FALSE
  /\ mustThrottle = FALSE
  /\ consecutiveOkResponses = 0
  /\ calls = [c \in Calls |-> [pc |-> "idle", softErrorAttempts |-> 0,
                               hardErrorAttempts |-> 0, attempts |-> 0,
                               thrown |-> 0, outcome |-> NoOutcome]]
  /\ transport = "any"

(***************************************************************************)
(* RequestQueue                                                            *)
(***************************************************************************)
NewCall == [pc |-> "idle", softErrorAttempts |-> 0, hardErrorAttempts |-> 0,
            attempts |-> 0, thrown |-> 0, outcome |-> NoOutcome]

\* constructor
QueueInit ==
  /\ maxAttemptsForSoftErrors \in 0..MaxSoftBudget
  /\ maxAttemptsForHardErrors \in 0..MaxHardBudget
  /\ unthrottleAfterOkCount \in 1..MaxOkCount
  /\ maxConcurrentTasks \in 1..MaxCeiling
  /\ concurrentTasks = 0
  /\ unthrottleTimeout = FALSE
  /\ mustThrottle = FALSE
  /\ consecutiveOkResponses = 0
  /\ calls = [c \in Calls |-> NewCall]
  /\ transport \in TransportKinds
  /\ NoExplorer

\* response.status === 429 || 500 || 502 || 503 || 504
IsSoftError(status) == status \in {429, 500, 502, 503, 504}

\* softErrorAttempts + 1 >= this.maxAttemptsForSoftErrors
IsLastSoftErrorAttemptAlt(soft) == soft >= maxAttemptsForSoftErrors
IsLastSoftErrorAttempt(soft) == soft + 1 >= maxAttemptsForSoftErrors

\* the catch block's test: either budget is spent
IsLastThrowAttemptAlt(soft, hard) ==
  soft >= maxAttemptsForSoftErrors - 1
IsLastThrowAttempt(soft, hard) ==
  \/ soft >= maxAttemptsForSoftErrors - 1
  \/ hard >= maxAttemptsForHardErrors - 1

\* the admission loop's condition
MustWaitAlt == concurrentTasks > maxConcurrentTasks \/ mustThrottle
MustWait == concurrentTasks >= maxConcurrentTasks \/ mustThrottle

OkCountReachedAlt(n) == n >= unthrottleAfterOkCount

\* this.consecutiveOkResponses > this.unthrottleAfterOkCount
OkCountReached(n) == n > unthrottleAfterOkCount

\* fetch() is over for call c: its frame is gone, the caller holds the outcome
Returned(c, outcome) ==
  [pc |-> "done", softErrorAttempts |-> 0, hardErrorAttempts |-> 0,
   attempts |-> calls[c].attempts, thrown |-> calls[c].thrown,
   outcome |-> outcome]

\* The head of the task's while loop for call c with counters soft and hard,
\* entered with the throttle flag `throttled`: leave the loop and throw the
\* queue's own error, or sleep when throttled, or call the transport.
LoopHead(c, soft, hard, throttled) ==
  IF soft < maxAttemptsForSoftErrors /\ hard < maxAttemptsForHardErrors
  THEN IF throttled
       THEN [calls[c] EXCEPT !.pc = "sleep", !.softErrorAttempts = soft,
                             !.hardErrorAttempts = hard]
       ELSE [calls[c] EXCEPT !.pc = "fetching", !.softErrorAttempts = soft,
                             !.hardErrorAttempts = hard,
                             !.attempts = calls[c].attempts + 1]
  ELSE Returned(c, [kind |-> "internal", status |-> 0, error |-> 0])

AdmissionAlt(c) ==
  IF concurrentTasks >= maxConcurrentTasks
  THEN /\ calls' = [calls EXCEPT ![c].pc = "waiting"]
       /\ UNCHANGED concurrentTasks
  ELSE /\ concurrentTasks' = concurrentTasks + 1
       /\ calls' = [calls EXCEPT ![c] = LoopHead(c, 0, 0, mustThrottle)]

\* One evaluation of the admission loop of fetch(): wait throttleTime more,
\* or count the task in and run it up to its first await.
Admission(c) ==
  IF MustWait
  THEN /\ calls' = [calls EXCEPT ![c].pc = "waiting"]
       /\ UNCHANGED concurrentTasks
  ELSE /\ concurrentTasks' = concurrentTasks + 1
       /\ calls' = [calls EXCEPT ![c] = LoopHead(c, 0, 0, mustThrottle)]

\* fetch(...args) is called
Fetch(c) ==
  /\ calls[c].pc = "idle"
  /\ UNCHANGED explorerVars
  /\ Admission(c)
  /\ UNCHANGED <<mustThrottle, consecutiveOkResponses, unthrottleTimeout,
                 maxAttemptsForSoftErrors, maxAttemptsForHardErrors,
                 unthrottleAfterOkCount, maxConcurrentTasks, transport>>

\* the admission loop's setTimeout(r, throttleTime) fires
AdmissionWake(c) ==
  /\ calls[c].pc = "waiting"
  /\ UNCHANGED explorerVars
  /\ Admission(c)
  /\ UNCHANGED <<mustThrottle, consecutiveOkResponses, unthrottleTimeout,
                 maxAttemptsForSoftErrors, maxAttemptsForHardErrors,
                 unthrottleAfterOkCount, maxConcurrentTasks, transport>>

\* the throttle sleep before an attempt is over: call the transport
ThrottleSleepDone(c) ==
  /\ calls[c].pc = "sleep"
  /\ UNCHANGED explorerVars
  /\ calls' = [calls EXCEPT ![c].pc = "fetching",
                            ![c].attempts = calls[c].attempts + 1]
  /\ UNCHANGED <<mustThrottle, consecutiveOkResponses, unthrottleTimeout,
                 concurrentTasks, maxAttemptsForSoftErrors,
                 maxAttemptsForHardErrors, unthrottleAfterOkCount,
                 maxConcurrentTasks, transport>>

\* the transport answers call c with a response of the given status
TransportResponds(c, status) ==
  LET soft == calls[c].softErrorAttempts
      hard == calls[c].hardErrorAttempts
      response == [kind |-> "response", status |-> status, error |-> 0]
  IN
  /\ calls[c].pc = "fetching"
  /\ UNCHANGED explorerVars
  /\ \/ transport = "any"
     \/ transport = "softErrors" /\ status \in RetriedStatuses
  /\ IF IsSoftError(status)
     THEN /\ mustThrottle' = TRUE
          /\ consecutiveOkResponses' = 0
          /\ IF IsLastSoftErrorAttempt(soft)
             THEN /\ concurrentTasks' = concurrentTasks - 1
                  /\ calls' = [calls EXCEPT ![c] = Returned(c, response)]
                  /\ UNCHANGED unthrottleTimeout
             ELSE /\ unthrottleTimeout' = TRUE
                  /\ calls' = [calls EXCEPT
                                 ![c] = LoopHead(c, soft + 1, hard, TRUE)]
                  /\ UNCHANGED concurrentTasks
     ELSE /\ consecutiveOkResponses' = consecutiveOkResponses + 1
          /\ mustThrottle' = IF OkCountReached(consecutiveOkResponses + 1)
                             THEN FALSE ELSE mustThrottle
          /\ concurrentTasks' = concurrentTasks - 1
          /\ calls' = [calls EXCEPT ![c] = Returned(c, response)]
          /\ UNCHANGED unthrottleTimeout
  /\ UNCHANGED <<maxAttemptsForSoftErrors, maxAttemptsForHardErrors,
                 unthrottleAfterOkCount, maxConcurrentTasks, transport>>

\* the transport throws on the attempt of call c; the error is named by the
\* attempt that threw it
TransportThrows(c) ==
  LET soft == calls[c].softErrorAttempts
      hard == calls[c].hardErrorAttempts
      error == [kind |-> "throw", status |-> 0, error |-> calls[c].attempts]
  IN
  /\ calls[c].pc = "fetching"
  /\ UNCHANGED explorerVars
  /\ transport \in {"any", "throws"}
  /\ mustThrottle' = TRUE
  /\ consecutiveOkResponses' = 0
  /\ IF IsLastThrowAttempt(soft, hard)
     THEN /\ concurrentTasks' = concurrentTasks - 1
          /\ calls' = [calls EXCEPT
                         ![c] = [Returned(c, error) EXCEPT
                                   !.thrown = calls[c].thrown + 1]]
          /\ UNCHANGED unthrottleTimeout
     ELSE /\ unthrottleTimeout' = TRUE
          /\ calls' = [calls EXCEPT
                         ![c] = [LoopHead(c, soft + 1, hard + 1, TRUE) EXCEPT
                                   !.thrown = calls[c].thrown + 1]]
          /\ UNCHANGED concurrentTasks
  /\ UNCHANGED <<maxAttemptsForSoftErrors, maxAttemptsForHardErrors,
                 unthrottleAfterOkCount, maxConcurrentTasks, transport>>

\* the unthrottle timer fires
UnthrottleTimerFires ==
  /\ unthrottleTimeout
  /\ UNCHANGED explorerVars
  /\ mustThrottle' = FALSE
  /\ unthrottleTimeout' = FALSE
  /\ UNCHANGED <<consecutiveOkResponses, concurrentTasks,
                 maxAttemptsForSoftErrors, maxAttemptsForHardErrors,
                 unthrottleAfterOkCount, maxConcurrentTasks, calls,
                 transport>>

QueueNext ==
  \/ \E c \in Calls : Fetch(c)
  \/ \E c \in Calls : AdmissionWake(c)
  \/ \E c \in Calls : ThrottleSleepDone(c)
  \/ \E c \in Calls : \E status \in Statuses : TransportResponds(c, status)
  \/ \E c \in Calls : TransportThrows(c)
  \/ UnthrottleTimerFires

SpecQueue == QueueInit /\ [][QueueNext]_vars

\* the transport call of c completes, one way or the other
TransportCompletes(c) ==
  \/ \E status \in Statuses : TransportResponds(c, status)
  \/ TransportThrows(c)

\* Timers fire and transport calls complete; nobody has to call fetch().
QueueFairness ==
  /\ WF_vars(UnthrottleTimerFires)
  /\ \A c \in Calls : /\ WF_vars(AdmissionWake(c))
                      /\ WF_vars(ThrottleSleepDone(c))
                      /\ WF_vars(TransportCompletes(c))

FairSpecQueue == QueueInit /\ [][QueueNext]_vars /\ QueueFairness

(***************************************************************************)
(* The block status cache                                                  *)
(***************************************************************************)
\* numConfirmations >= this.#irrevConfThresh, numConfirmations being
\* tip - blockHeight + 1 (NaN, and so never >=, while the tip is undefined)
IrreversibleAlt(tip, blockHeight) ==
  tip # Undefined /\ tip - blockHeight >= irrevConfThresh
Irreversible(tip, blockHeight) ==
  tip # Undefined /\ tip - blockHeight + 1 >= irrevConfThresh

\* blockStatus && blockStatus.irreversible
CachedIrreversible(map, blockHeight) ==
  map[blockHeight] # NoRecord /\ map[blockHeight].irreversible

\* a new BlockStatus object for blockHeight: ref tells it from the objects
\* the map held for this height before
NewBlockStatus(map, blockHeight, irreversible) ==
  [blockHeight |-> blockHeight, irreversible |-> irreversible,
   ref |-> map[blockHeight].ref + 1]

\* ElectrumExplorer.#updateBlockStatusMap: the map afterwards
UpdateBlockStatusMap(map, blockHeight, tip) ==
  IF CachedIrreversible(map, blockHeight)
  THEN map
  ELSE [map EXCEPT ![blockHeight] =
          NewBlockStatus(map, blockHeight, Irreversible(tip, blockHeight))]

\* the result of fetchBlockStatus() in a call record
ReturnsRecord(call, record, tip, cached) ==
  [call EXCEPT !.pc = "done", !.kind = "record", !.result = record,
               !.tip = tip, !.cached = cached]
ReturnsAbsent(call) == [call EXCEPT !.pc = "done", !.kind = "absent"]
Throws(call) == [call EXCEPT !.pc = "done", !.kind = "throw"]

\* calls are taken in the order of their records
FirstIdle(records, set) ==
  CHOOSE i \in set : records[i].pc = "idle" /\
                     \A j \in set : records[j].pc = "idle" => i <= j

(***************************************************************************)
(* ElectrumExplorer                                                        *)
(***************************************************************************)
ElectrumInit ==
  /\ NoQueue
  /\ backend = "electrum"
  /\ irrevConfThresh \in 1..MaxThreshold
  /\ NewExplorer

\* isClosed()
IsClosed == client = NoClient

\* #updateBlockTipHeight's test on a header of the given height
\* (a header at height 0 is falsy)
RaisesTipAlt(height) == height # 0
RaisesTip(height) ==
  height # 0 /\ (tipBlockHeight = Undefined \/ height > tipBlockHeight)

\* #updateBlockTipHeight(header): the tip and the map afterwards
UpdateBlockTipHeight(height) ==
  IF RaisesTip(height)
  THEN /\ tipBlockHeight' = height
       /\ blockStatusMap' = UpdateBlockStatusMap(blockStatusMap, height, height)
  ELSE UNCHANGED <<tipBlockHeight, blockStatusMap>>

\* close(): clear the interval of #pingInterval, close the socket of #client
CloseAlt ==
  /\ UNCHANGED <<liveTimers, pingInterval>>
  /\ openClients' = openClients \ {client}
  /\ client' = NoClient
  /\ session' = "closed"
Close ==
  /\ liveTimers' = liveTimers \ {pingInterval}
  /\ pingInterval' = NoTimer
  /\ openClients' = openClients \ {client}
  /\ client' = NoClient
  /\ session' = "closed"

\* the catch block of connect(): if (!this.isClosed()) this.close()
CloseIfOpenAlt ==
  UNCHANGED <<liveTimers, pingInterval, openClients, client, session>>
CloseIfOpen ==
  IF IsClosed
  THEN UNCHANGED <<liveTimers, pingInterval, openClients, client, session>>
  ELSE Close

\* a heartbeat callback that sleeps before it reconnects sees the user call
\* close() or connect()
Interfere ==
  [t \in DOMAIN ticks |-> IF ticks[t].pc = "backoff"
                   THEN [ticks[t] EXCEPT !.interfered = TRUE]
                   ELSE ticks[t]]

\* the two guards of connect(): the error it throws, or "none"
ConnectGuardAlt ==
  IF pingInterval # NoTimer THEN "stillPinging" ELSE "none"
ConnectGuard ==
  IF pingInterval # NoTimer THEN "stillPinging"
  ELSE IF ~IsClosed THEN "neverClosed"
  ELSE "none"

\* connect() up to its first await, for the call record k: the two guards,
\* then the new client
ConnectStart(k, by) ==
  IF ConnectGuard # "none"
  THEN /\ connects' = [connects EXCEPT
                         ![k] = [pc |-> "rejected", by |-> by,
                                 error |-> ConnectGuard]]
       /\ UNCHANGED <<client, openClients, session>>
  ELSE /\ connects' = [connects EXCEPT
                         ![k] = [pc |-> "init", by |-> by, error |-> "none"]]
       /\ client' = k
       /\ openClients' = openClients \cup {k}
       /\ session' = "connecting"

\* the user calls connect()
UserConnect ==
  /\ backend = "electrum"
  /\ \E k \in DOMAIN connects : connects[k].pc = "idle"
  /\ ConnectStart(FirstIdle(connects, DOMAIN connects), "user")
  /\ ticks' = Interfere
  /\ UNCHANGED <<queueVars, esploraVars, lowerHeaderSeen, backend,
                 cacheVars, pingInterval, tipBlockHeight,
                 subscribed, liveTimers>>

\* the user calls close()
UserClose ==
  /\ backend = "electrum"
  /\ Close
  /\ ticks' = Interfere
  /\ UNCHANGED <<queueVars, esploraVars, lowerHeaderSeen, backend,
                 cacheVars, tipBlockHeight, subscribed,
                 connects>>

\* initElectrum() resolves for the connect() call k: the listener goes on
\* whatever #client is now, and so does the subscribe request; with no
\* client the access throws inside the try block
InitResolves(k) ==
  /\ connects[k].pc = "init"
  /\ IF IsClosed
     THEN /\ connects' = [connects EXCEPT ![k].pc = "rejected",
                                          ![k].error = "connectFailed"]
          /\ UNCHANGED subscribed
     ELSE /\ connects' = [connects EXCEPT ![k].pc = "subscribe"]
          /\ subscribed' = subscribed \cup {client}
  /\ UNCHANGED <<queueVars, esploraVars, lowerHeaderSeen, backend,
                 cacheVars, client, pingInterval,
                 tipBlockHeight, openClients, liveTimers, ticks, session>>

\* initElectrum() or blockchainHeaders_subscribe() rejects for call k
ConnectFails(k) ==
  /\ connects[k].pc \in {"init", "subscribe"}
  /\ CloseIfOpen
  /\ connects' = [connects EXCEPT ![k].pc = "rejected",
                                  ![k].error = "connectFailed"]
  /\ UNCHANGED <<queueVars, esploraVars, lowerHeaderSeen, backend,
                 cacheVars, tipBlockHeight, subscribed,
                 ticks>>

\* blockchainHeaders_subscribe() resolves with the header at `height` for
\* call k: seed the tip, then start the heartbeat
SubscribeResolves(k, height) ==
  /\ connects[k].pc = "subscribe"
  /\ UpdateBlockTipHeight(height)
  /\ IF IsClosed
     THEN /\ connects' = [connects EXCEPT ![k].pc = "rejected",
                                          ![k].error = "clientShouldExist"]
          /\ UNCHANGED <<pingInterval, liveTimers, session>>
     ELSE /\ connects' = [connects EXCEPT ![k].pc = "resolved"]
          /\ pingInterval' = k
          /\ liveTimers' = liveTimers \cup {k}
          /\ session' = "connected"
  /\ UNCHANGED <<queueVars, esploraVars, lowerHeaderSeen, backend,
                 irrevConfThresh, statusCalls, client,
                 openClients, subscribed, ticks>>

\* a subscribed client whose socket is open delivers a header
HeaderNotification(height) ==
  /\ backend = "electrum"
  /\ subscribed \cap openClients # {}
  /\ UpdateBlockTipHeight(height)
  /\ lowerHeaderSeen' =
       (lowerHeaderSeen \/ (0 < height /\ height < tipBlockHeight))
  /\ UNCHANGED <<queueVars, esploraVars, backend, irrevConfThresh,
                 statusCalls, client,
                 pingInterval, openClients, subscribed, liveTimers, connects,
                 ticks, session>>

\* the interval timer `timer` fires: the callback notes #pingInterval, throws
\* without a client, and pings otherwise
TimerFires(timer) ==
  LET t == FirstIdle(ticks, DOMAIN ticks) IN
  /\ timer \in liveTimers
  /\ \E i \in DOMAIN ticks : ticks[i].pc = "idle"
  /\ ticks' = [ticks EXCEPT
                 ![t] = IF IsClosed
                        THEN [NoTick EXCEPT !.pc = "done", !.end = "threw",
                                            !.pingInterval = pingInterval]
                        ELSE [NoTick EXCEPT !.pc = "pinging",
                                            !.pingInterval = pingInterval]]
  /\ UNCHANGED <<queueVars, esploraVars, lowerHeaderSeen, backend,
                 cacheVars, client, pingInterval,
                 tipBlockHeight, openClients, subscribed, liveTimers,
                 connects, session>>

\* server_ping() resolves for the heartbeat callback t
PingResolves(t) ==
  /\ ticks[t].pc = "pinging"
  /\ ticks' = [ticks EXCEPT ![t].pc = "done", ![t].end = "alive"]
  /\ UNCHANGED <<queueVars, esploraVars, lowerHeaderSeen, backend,
                 cacheVars, client, pingInterval,
                 tipBlockHeight, openClients, subscribed, liveTimers,
                 connects, session>>

\* the callback acts on a failed ping only if #pingInterval is the one it noted
IsCurrent(t) == ticks[t].pingInterval = pingInterval

\* server_ping() rejects for the heartbeat callback t: close and sleep 1 s,
\* unless the callback is stale or the session is closed already
PingRejects(t) ==
  /\ ticks[t].pc = "pinging"
  /\ IF IsCurrent(t)
     THEN IF IsClosed
          THEN /\ ticks' = [ticks EXCEPT ![t].pc = "done",
                                         ![t].end = "closedAlready"]
               /\ UNCHANGED <<client, pingInterval, openClients, liveTimers,
                              session>>
          ELSE /\ Close
               /\ ticks' = [ticks EXCEPT ![t].pc = "backoff"]
     ELSE /\ ticks' = [ticks EXCEPT ![t].pc = "done", ![t].end = "stale"]
          /\ UNCHANGED <<client, pingInterval, openClients, liveTimers,
                         session>>
  /\ UNCHANGED <<queueVars, esploraVars, lowerHeaderSeen, backend,
                 cacheVars, tipBlockHeight, subscribed,
                 connects>>

\* connect may have been set externally while sleeping, check first
MayReconnect(t) == IsClosed /\ ticks[t].pingInterval = pingInterval

\* the 1 s sleep of the heartbeat callback t is over: connect() again if the
\* session is still closed and #pingInterval is still the one noted
BackoffOver(t) ==
  /\ ticks[t].pc = "backoff"
  /\ IF MayReconnect(t)
     THEN /\ \E k \in DOMAIN connects : connects[k].pc = "idle"
          /\ ConnectStart(FirstIdle(connects, DOMAIN connects), "heartbeat")
          /\ ticks' = [ticks EXCEPT ![t].pc = "done",
                                    ![t].end = "reconnecting"]
     ELSE /\ ticks' = [ticks EXCEPT ![t].pc = "done", ![t].end = "gaveUp"]
          /\ UNCHANGED <<client, openClients, session, connects>>
  /\ UNCHANGED <<queueVars, esploraVars, lowerHeaderSeen, backend,
                 cacheVars, pingInterval, tipBlockHeight,
                 subscribed, liveTimers>>

\* fetchBlockHeight(): what a call made in this state does
FetchBlockHeightAlt ==
  IF tipBlockHeight = Undefined
  THEN [kind |-> "throw", error |-> "noTip", height |-> Undefined]
  ELSE [kind |-> "height", error |-> "none", height |-> tipBlockHeight]
FetchBlockHeight ==
  IF IsClosed
  THEN [kind |-> "throw", error |-> "notConnected", height |-> Undefined]
  ELSE IF tipBlockHeight = Undefined
  THEN [kind |-> "throw", error |-> "noTip", height |-> Undefined]
  ELSE [kind |-> "height", error |-> "none", height |-> tipBlockHeight]

\* the user calls fetchBlockHeight()
UserFetchBlockHeight ==
  /\ backend = "electrum"
  /\ FetchBlockHeight.kind \in {"height", "throw"}
  /\ UNCHANGED <<queueVars, esploraVars, lowerHeaderSeen, backend,
                 cacheVars, client, pingInterval,
                 tipBlockHeight, openClients, subscribed, liveTimers,
                 connects, ticks, session>>

\* ElectrumExplorer.fetchBlockStatus(blockHeight) up to its await
ElectrumFetchBlockStatus(blockHeight) ==
  LET j == FirstIdle(statusCalls, StatusCalls)
      call == [NoStatusCall EXCEPT !.blockHeight = blockHeight]
  IN
  /\ backend = "electrum"
  /\ \E i \in StatusCalls : statusCalls[i].pc = "idle"
  /\ statusCalls' =
       [statusCalls EXCEPT
          ![j] = IF CachedIrreversible(blockStatusMap, blockHeight)
                 THEN ReturnsRecord(call, blockStatusMap[blockHeight],
                                    Undefined, TRUE)
                 ELSE IF tipBlockHeight # Undefined
                         /\ blockHeight > tipBlockHeight
                 THEN ReturnsAbsent(call)
                 ELSE IF IsClosed
                 THEN Throws(call)
                 ELSE [call EXCEPT !.pc = "header"]]
  /\ UNCHANGED <<queueVars, esploraVars, backend, irrevConfThresh,
                 blockStatusMap, electrumVars>>

\* blockchainBlock_header() resolves for the fetchBlockStatus() call j
HeaderResolves(j) ==
  LET blockHeight == statusCalls[j].blockHeight
      map == UpdateBlockStatusMap(blockStatusMap, blockHeight, tipBlockHeight)
  IN
  /\ backend = "electrum"
  /\ statusCalls[j].pc = "header"
  /\ blockStatusMap' = map
  /\ statusCalls' = [statusCalls EXCEPT
                       ![j] = ReturnsRecord(statusCalls[j], map[blockHeight],
                                            tipBlockHeight, FALSE)]
  /\ UNCHANGED <<queueVars, esploraVars, backend, irrevConfThresh,
                 electrumVars>>

\* blockchainBlock_header() rejects for the fetchBlockStatus() call j
HeaderRejects(j) ==
  /\ backend = "electrum"
  /\ statusCalls[j].pc = "header"
  /\ statusCalls' = [statusCalls EXCEPT ![j] = Throws(statusCalls[j])]
  /\ UNCHANGED <<queueVars, esploraVars, backend, irrevConfThresh,
                 blockStatusMap, electrumVars>>

\* blockchainScripthash_getHistory() resolves with a transaction at
\* `height` (0 for the mempool) while the session is open: a height above
\* the tip becomes the tip
HistoryResolves(height) ==
  /\ backend = "electrum"
  /\ ~IsClosed
  /\ tipBlockHeight' = IF tipBlockHeight # Undefined /\ height > tipBlockHeight
                       THEN height
                       ELSE tipBlockHeight
  /\ UNCHANGED <<queueVars, esploraVars, lowerHeaderSeen, backend,
                 cacheVars, client, pingInterval, openClients, subscribed,
                 liveTimers, connects, ticks, session>>

(***************************************************************************)
(* ElectrumExplorer.fetchTxHistory() as a call with its result.  The       *)
(* history arrives in one answer; the server reports a transaction in the  *)
(* mempool with height -1 or 0.                                            *)
(***************************************************************************)
ElectrumHeights == {-1} \cup Heights

Histories ==
  UNION {[1..n -> ElectrumHeights] :
           n \in 0..(ElectrumMaxTxPerScriptPubKey + 1)}

\* the test of the arguments at the top of ElectrumExplorer.fetchTxHistory():
\* an address is turned into a scriptHash when none is given, and the call
\* throws when there is still no scriptHash
ElectrumArgumentsOk(address, scriptHash) ==
  scriptHash \/ address

ElectrumEntryAlt(tip, blockHeight) ==
  [blockHeight |-> blockHeight,
   irreversible |-> Irreversible(tip, blockHeight)]

\* the entry of a transaction at blockHeight under `tip`: a transaction in
\* the mempool has 0 confirmations
ElectrumEntry(tip, blockHeight) ==
  [blockHeight |-> blockHeight,
   irreversible |-> IF blockHeight # 0
                    THEN Irreversible(tip, blockHeight)
                    ELSE 0 >= irrevConfThresh]

\* history.map() of fetchTxHistory(): one entry per transaction, in the
\* order of the answer; a height above the tip becomes the tip before the
\* confirmations of that transaction are counted
RECURSIVE MapHistory(_, _, _)
MapHistory(history, tip, txHistory) ==
  IF history = <<>>
  THEN [tip |-> tip, txHistory |-> txHistory]
  ELSE LET height == Head(history)
           blockHeight == IF height = -1 THEN 0 ELSE height
           raised == IF tip # Undefined /\ blockHeight > tip
                     THEN blockHeight
                     ELSE tip
       IN MapHistory(Tail(history), raised,
                     Append(txHistory, ElectrumEntry(raised, blockHeight)))

\* ElectrumExplorer.fetchTxHistory() up to its request: it throws on the
\* arguments, or because #getClientOrThrow() throws
ElectrumFetchTxHistory(address, scriptHash) ==
  LET i == FirstIdle(historyCalls, HistoryCalls) IN
  /\ backend = "electrum"
  /\ \E c \in HistoryCalls : historyCalls[c].pc = "idle"
  /\ historyCalls' =
       [historyCalls EXCEPT
          ![i] = IF ~ElectrumArgumentsOk(address, scriptHash)
                 THEN [@ EXCEPT !.pc = "threw", !.error = "arguments"]
                 ELSE IF IsClosed
                 THEN [@ EXCEPT !.pc = "threw", !.error = "notConnected"]
                 ELSE [@ EXCEPT !.pc = "getHistory"]]
  /\ UNCHANGED <<queueVars, backend, cacheVars, electrumVars,
                 cachedTipBlockHeight, tipBlockHeightCacheTime>>

\* blockchainScripthash_getHistory() resolves with `history` for the
\* fetchTxHistory() call i, which runs to its end
GetHistoryResolves(i, history) ==
  LET mapped == MapHistory(history, tipBlockHeight, <<>>) IN
  /\ backend = "electrum"
  /\ historyCalls[i].pc = "getHistory"
  /\ IF Len(history) > ElectrumMaxTxPerScriptPubKey
     THEN /\ historyCalls' = [historyCalls EXCEPT ![i].pc = "threw",
                                                  ![i].served = history,
                                                  ![i].error = "tooMany"]
          /\ UNCHANGED tipBlockHeight
     ELSE /\ historyCalls' =
               [historyCalls EXCEPT ![i].pc = "returned",
                                    ![i].served = history,
                                    ![i].txHistory = mapped.txHistory]
          /\ tipBlockHeight' = mapped.tip
  /\ UNCHANGED <<queueVars, backend, cacheVars, client, pingInterval,
                 openClients, subscribed, liveTimers, connects, ticks,
                 session, lowerHeaderSeen, cachedTipBlockHeight,
                 tipBlockHeightCacheTime>>

\* blockchainScripthash_getHistory() rejects for the fetchTxHistory() call i
GetHistoryRejects(i) ==
  /\ backend = "electrum"
  /\ historyCalls[i].pc = "getHistory"
  /\ historyCalls' = [historyCalls EXCEPT ![i].pc = "threw",
                                          ![i].error = "request"]
  /\ UNCHANGED <<queueVars, backend, cacheVars, electrumVars,
                 cachedTipBlockHeight, tipBlockHeightCacheTime>>

\* the session of an ElectrumExplorer and its fetchTxHistory() calls
ElectrumTxHistoryNext ==
  \/ UserConnect
  \/ UserClose
  \/ \E k \in Connects : InitResolves(k)
  \/ \E k \in Connects : ConnectFails(k)
  \/ \E k \in Connects : \E height \in Heights : SubscribeResolves(k, height)
  \/ \E height \in Heights : HeaderNotification(height)
  \/ \E address, scriptHash \in BOOLEAN :
       ElectrumFetchTxHistory(address, scriptHash)
  \/ \E i \in HistoryCalls : \E history \in Histories :
       GetHistoryResolves(i, history)
  \/ \E i \in HistoryCalls : GetHistoryRejects(i)

ElectrumNext ==
  \/ UserConnect
  \/ UserClose
  \/ \E k \in Connects : InitResolves(k)
  \/ \E k \in Connects : ConnectFails(k)
  \/ \E k \in Connects : \E height \in Heights : SubscribeResolves(k, height)
  \/ \E height \in Heights : HeaderNotification(height)
  \/ \E timer \in Connects : TimerFires(timer)
  \/ \E t \in Ticks : PingResolves(t)
  \/ \E t \in Ticks : PingRejects(t)
  \/ \E t \in Ticks : BackoffOver(t)
  \/ UserFetchBlockHeight
  \/ \E blockHeight \in Heights : ElectrumFetchBlockStatus(blockHeight)
  \/ \E j \in StatusCalls : HeaderResolves(j)
  \/ \E j \in StatusCalls : HeaderRejects(j)
  \/ \E height \in Heights : HistoryResolves(height)

SpecElectrum == ElectrumInit /\ [][ElectrumNext]_vars

\* the session alone: connect() and close(), with no heartbeat tick, no
\* header pushed by the server and no other request
SessionNext ==
  \/ UserConnect
  \/ UserClose
  \/ \E k \in Connects : InitResolves(k)
  \/ \E k \in Connects : ConnectFails(k)
  \/ \E k \in Connects : \E height \in Heights : SubscribeResolves(k, height)

SpecSession == ElectrumInit /\ [][SessionNext]_vars

\* the server's tip stays at one height in the specification of the
\* heartbeat
HeartbeatHeights == {MaxHeight}

\* the session and its heartbeat alone, with more connect() calls and
\* heartbeat callbacks and no other request
HeartbeatInit ==
  /\ NoQueue
  /\ backend = "electrum"
  /\ irrevConfThresh \in 1..MaxThreshold
  /\ NewExplorerWith(HeartbeatConnects, HeartbeatTicks)

HeartbeatNext ==
  \/ UserConnect
  \/ UserClose
  \/ \E k \in HeartbeatConnects : InitResolves(k)
  \/ \E k \in HeartbeatConnects : ConnectFails(k)
  \/ \E k \in HeartbeatConnects : \E height \in HeartbeatHeights :
       SubscribeResolves(k, height)
  \/ \E timer \in HeartbeatConnects : TimerFires(timer)
  \/ \E t \in HeartbeatTicks : PingResolves(t)
  \/ \E t \in HeartbeatTicks : PingRejects(t)
  \/ \E t \in HeartbeatTicks : BackoffOver(t)

SpecHeartbeat == HeartbeatInit /\ [][HeartbeatNext]_vars

(***************************************************************************)
(* EsploraExplorer                                                         *)
(*                                                                         *)
(* A request through #esploraFetch either returns or throws; what the      *)
(* RequestQueue does in between is the first part of this module.          *)
(***************************************************************************)
EsploraInit ==
  /\ NoQueue
  /\ backend = "esplora"
  /\ irrevConfThresh \in 1..MaxThreshold
  /\ NewExplorer

\* #getTipBlockHeight(blockHeight) fetches the height when the cache is older
\* than #BLOCK_HEIGHT_CACHE_TIME or behind blockHeight; without an argument,
\* or with 0, the second test is falsy
MustFetchTip(blockHeight) ==
  \/ tipBlockHeightCacheTime = "expired"
  \/ (blockHeight # 0 /\ blockHeight > cachedTipBlockHeight)

\* the pages of transactions the server answers a history request with, each
\* transaction by its status.block_height, 0 for one in the mempool
Pages == UNION {[1..n -> Heights] : n \in 0..MaxPage}

AfterFirstTipAlt(call, tip) ==
  [call EXCEPT !.pc = "hash"]

\* fetchBlockStatus() after its first #getTipBlockHeight() returned tip
AfterFirstTip(call, tip) ==
  IF call.blockHeight > tip
  THEN ReturnsAbsent(call)
  ELSE [call EXCEPT !.pc = "hash"]

\* EsploraExplorer.fetchBlockStatus(blockHeight) up to its first request
EsploraFetchBlockStatus(blockHeight) ==
  LET j == FirstIdle(statusCalls, StatusCalls)
      call == [NoStatusCall EXCEPT !.blockHeight = blockHeight]
  IN
  /\ backend = "esplora"
  /\ \E i \in StatusCalls : statusCalls[i].pc = "idle"
  /\ statusCalls' =
       [statusCalls EXCEPT
          ![j] = IF CachedIrreversible(blockStatusMap, blockHeight)
                 THEN ReturnsRecord(call, blockStatusMap[blockHeight],
                                    Undefined, TRUE)
                 ELSE IF MustFetchTip(0)
                 THEN [call EXCEPT !.pc = "tip1"]
                 ELSE AfterFirstTip(call, cachedTipBlockHeight)]
  /\ UNCHANGED <<queueVars, backend, irrevConfThresh, blockStatusMap,
                 electrumVars, esploraVars>>

\* the end of fetchBlockStatus(): the record goes into the map, whatever
\* the map holds for the height
StoreBlockStatus(j, tip) ==
  LET blockHeight == statusCalls[j].blockHeight
      blockStatus == NewBlockStatus(blockStatusMap, blockHeight,
                                    Irreversible(tip, blockHeight))
  IN
  /\ blockStatusMap' = [blockStatusMap EXCEPT ![blockHeight] = blockStatus]
  /\ statusCalls' = [statusCalls EXCEPT
                       ![j] = ReturnsRecord(statusCalls[j], blockStatus, tip,
                                            FALSE)]

\* fetchBlockHeight() gets `tip` from the server for the call j, which
\* waits in its first or its second #getTipBlockHeight()
TipResolves(j, tip) ==
  /\ backend = "esplora"
  /\ statusCalls[j].pc \in {"tip1", "tip2"}
  /\ cachedTipBlockHeight' = tip
  /\ tipBlockHeightCacheTime' = "fresh"
  /\ IF statusCalls[j].pc = "tip1"
     THEN /\ statusCalls' = [statusCalls EXCEPT
                               ![j] = AfterFirstTip(statusCalls[j], tip)]
          /\ UNCHANGED blockStatusMap
     ELSE StoreBlockStatus(j, tip)
  /\ UNCHANGED <<queueVars, backend, irrevConfThresh, electrumVars,
                 historyCalls>>

\* the block-height request of call j returns the block hash
HashResolves(j) ==
  /\ backend = "esplora"
  /\ statusCalls[j].pc = "hash"
  /\ statusCalls' = [statusCalls EXCEPT ![j].pc = "block"]
  /\ UNCHANGED <<queueVars, backend, irrevConfThresh, blockStatusMap,
                 electrumVars, esploraVars>>

\* the block request of call j returns the block: ask for the tip again
BlockResolves(j) ==
  /\ backend = "esplora"
  /\ statusCalls[j].pc = "block"
  /\ IF MustFetchTip(statusCalls[j].blockHeight)
     THEN /\ statusCalls' = [statusCalls EXCEPT ![j].pc = "tip2"]
          /\ UNCHANGED blockStatusMap
     ELSE StoreBlockStatus(j, cachedTipBlockHeight)
  /\ UNCHANGED <<queueVars, backend, irrevConfThresh, electrumVars,
                 esploraVars>>

\* a request of the fetchBlockStatus() call j throws
StatusRequestRejects(j) ==
  /\ backend = "esplora"
  /\ statusCalls[j].pc \in {"tip1", "hash", "block", "tip2"}
  /\ statusCalls' = [statusCalls EXCEPT ![j] = Throws(statusCalls[j])]
  /\ UNCHANGED <<queueVars, backend, irrevConfThresh, blockStatusMap,
                 electrumVars, esploraVars>>

\* a fetchBlockHeight() call of the user gets `tip` from the server
BlockHeightResolves(tip) ==
  /\ backend = "esplora"
  /\ cachedTipBlockHeight' = tip
  /\ tipBlockHeightCacheTime' = "fresh"
  /\ UNCHANGED <<queueVars, backend, cacheVars, electrumVars, historyCalls>>

\* more than #BLOCK_HEIGHT_CACHE_TIME seconds pass
CacheExpires ==
  /\ backend = "esplora"
  /\ tipBlockHeightCacheTime = "fresh"
  /\ tipBlockHeightCacheTime' = "expired"
  /\ UNCHANGED <<queueVars, backend, cacheVars, electrumVars,
                 cachedTipBlockHeight, historyCalls>>

\* a sequence in the opposite order, as Array.prototype.reverse() leaves it
RECURSIVE Reverse(_)
Reverse(seq) ==
  IF seq = <<>> THEN <<>> ELSE Append(Reverse(Tail(seq)), Head(seq))

TooManyAlt(txHistory) == FALSE

\* txHistory.length > this.#maxTxPerScriptPubKey
TooMany(txHistory) == Len(txHistory) > MaxTxPerScriptPubKey

\* the for loop of fetchTxHistory() over the rest of a page, up to the
\* await that has to fetch the tip, the throw, or the end of the page:
\* a confirmed transaction puts a new record into the map, and every
\* transaction pushes its entry, which starts as blockHeight 0 and
\* irreversible false
RECURSIVE ProcessPage(_, _, _, _, _)
ProcessPage(map, page, txHistory, tip, fresh) ==
  IF page = <<>>
  THEN [end |-> "page", map |-> map, page |-> page, txHistory |-> txHistory]
  ELSE IF Head(page) # 0 /\ ~fresh
  THEN [end |-> "tip", map |-> map, page |-> page, txHistory |-> txHistory]
  ELSE LET blockHeight == Head(page)
           irreversible == blockHeight # 0 /\ Irreversible(tip, blockHeight)
           stored ==
             IF blockHeight # 0
             THEN [map EXCEPT
                     ![blockHeight] =
                        NewBlockStatus(map, blockHeight, irreversible)]
             ELSE map
           pushed == Append(txHistory, [blockHeight |-> blockHeight,
                                        irreversible |-> irreversible])
       IN IF TooMany(pushed)
          THEN [end |-> "throw", map |-> stored, page |-> Tail(page),
                txHistory |-> pushed]
          ELSE ProcessPage(stored, Tail(page), pushed, tip, fresh)

AfterPageAlt(call, processed) ==
  IF processed.end = "tip"
  THEN [call EXCEPT !.pc = "tip", !.page = processed.page,
                    !.txHistory = processed.txHistory]
  ELSE IF call.lastTxid /\ processed.end # "throw"
  THEN [call EXCEPT !.pc = "page", !.page = <<>>,
                    !.txHistory = processed.txHistory]
  ELSE [call EXCEPT
          !.pc = "returned", !.page = <<>>,
          !.txHistory =
             Reverse(SubSeq(processed.txHistory, 1,
                            IF Len(processed.txHistory) > MaxTxPerScriptPubKey
                            THEN MaxTxPerScriptPubKey
                            ELSE Len(processed.txHistory)))]

\* the fetchTxHistory() call i after ProcessPage: suspended on the tip, ended
\* by the throw, asking for the next page, or returning the reversed array
AfterPage(call, processed) ==
  IF processed.end = "tip"
  THEN [call EXCEPT !.pc = "tip", !.page = processed.page,
                    !.txHistory = processed.txHistory]
  ELSE IF processed.end = "throw"
  THEN [call EXCEPT !.pc = "threw", !.page = <<>>, !.txHistory = <<>>,
                    !.error = "tooMany"]
  ELSE IF call.lastTxid
  THEN [call EXCEPT !.pc = "page", !.page = <<>>,
                    !.txHistory = processed.txHistory]
  ELSE [call EXCEPT !.pc = "returned", !.page = <<>>,
                    !.txHistory = Reverse(processed.txHistory)]

\* the test of the arguments at the top of EsploraExplorer.fetchTxHistory()
EsploraArgumentsOk(address, scriptHash) ==
  (address /\ ~scriptHash) \/ (~address /\ scriptHash)

\* EsploraExplorer.fetchTxHistory() up to its first request; address and
\* scriptHash tell which of the two arguments the caller gave
EsploraFetchTxHistory(address, scriptHash) ==
  LET i == FirstIdle(historyCalls, HistoryCalls) IN
  /\ backend = "esplora"
  /\ \E c \in HistoryCalls : historyCalls[c].pc = "idle"
  /\ historyCalls' =
       [historyCalls EXCEPT
          ![i] = IF EsploraArgumentsOk(address, scriptHash)
                 THEN [@ EXCEPT !.pc = "page"]
                 ELSE [@ EXCEPT !.pc = "threw", !.error = "arguments"]]
  /\ UNCHANGED <<queueVars, backend, cacheVars, electrumVars,
                 cachedTipBlockHeight, tipBlockHeightCacheTime>>

\* the server answers the request of the fetchTxHistory() call i with a page
PageResolves(i, page) ==
  LET call == [historyCalls[i] EXCEPT
                 !.lastTxid = (page # <<>>),
                 !.served = historyCalls[i].served \o page]
      processed == ProcessPage(blockStatusMap, page, call.txHistory,
                               cachedTipBlockHeight,
                               tipBlockHeightCacheTime = "fresh")
  IN
  /\ backend = "esplora"
  /\ historyCalls[i].pc = "page"
  /\ blockStatusMap' = processed.map
  /\ historyCalls' = [historyCalls EXCEPT ![i] = AfterPage(call, processed)]
  /\ UNCHANGED <<queueVars, backend, irrevConfThresh, statusCalls,
                 electrumVars, cachedTipBlockHeight, tipBlockHeightCacheTime>>

\* fetchBlockHeight() gets `tip` from the server for the fetchTxHistory()
\* call i
HistoryTipResolves(i, tip) ==
  LET processed == ProcessPage(blockStatusMap, historyCalls[i].page,
                               historyCalls[i].txHistory, tip, TRUE)
  IN
  /\ backend = "esplora"
  /\ historyCalls[i].pc = "tip"
  /\ cachedTipBlockHeight' = tip
  /\ tipBlockHeightCacheTime' = "fresh"
  /\ blockStatusMap' = processed.map
  /\ historyCalls' = [historyCalls EXCEPT
                        ![i] = AfterPage(historyCalls[i], processed)]
  /\ UNCHANGED <<queueVars, backend, irrevConfThresh, statusCalls,
                 electrumVars>>

\* a request of the fetchTxHistory() call i throws
HistoryRequestRejects(i) ==
  /\ backend = "esplora"
  /\ historyCalls[i].pc \in {"page", "tip"}
  /\ historyCalls' = [historyCalls EXCEPT ![i].pc = "threw",
                                          ![i].page = <<>>,
                                          ![i].txHistory = <<>>,
                                          ![i].error = "request"]
  /\ UNCHANGED <<queueVars, backend, cacheVars, electrumVars,
                 cachedTipBlockHeight, tipBlockHeightCacheTime>>

EsploraNext ==
  \/ \E blockHeight \in Heights : EsploraFetchBlockStatus(blockHeight)
  \/ \E j \in StatusCalls : \E tip \in Heights : TipResolves(j, tip)
  \/ \E j \in StatusCalls : HashResolves(j)
  \/ \E j \in StatusCalls : BlockResolves(j)
  \/ \E j \in StatusCalls : StatusRequestRejects(j)
  \/ \E tip \in Heights : BlockHeightResolves(tip)
  \/ CacheExpires
  \/ \E address, scriptHash \in BOOLEAN :
       EsploraFetchTxHistory(address, scriptHash)
  \/ \E i \in HistoryCalls : \E page \in Pages : PageResolves(i, page)
  \/ \E i \in HistoryCalls : \E tip \in Heights : HistoryTipResolves(i, tip)
  \/ \E i \in HistoryCalls : HistoryRequestRejects(i)

SpecEsplora == EsploraInit /\ [][EsploraNext]_vars

\* the tip of an EsploraExplorer and its fetchTxHistory() calls
EsploraTxHistoryNext ==
  \/ \E tip \in Heights : BlockHeightResolves(tip)
  \/ CacheExpires
  \/ \E address, scriptHash \in BOOLEAN :
       EsploraFetchTxHistory(address, scriptHash)
  \/ \E i \in HistoryCalls : \E page \in Pages : PageResolves(i, page)
  \/ \E i \in HistoryCalls : \E tip \in Heights : HistoryTipResolves(i, tip)
  \/ \E i \in HistoryCalls : HistoryRequestRejects(i)

\* every request of a fetchTxHistory() call is answered, by a page or a tip
\* or by an error
HistoryFairness ==
  \A i \in HistoryCalls :
    /\ WF_vars(\E page \in Pages : PageResolves(i, page))
    /\ WF_vars(\E tip \in Heights : HistoryTipResolves(i, tip))

FairSpecEsploraHistory ==
  EsploraInit /\ [][EsploraTxHistoryNext]_vars /\ HistoryFairness

(***************************************************************************)
(* Either explorer                                                         *)
(***************************************************************************)
ExplorerInit == ElectrumInit \/ EsploraInit

ExplorerNext == ElectrumNext \/ EsploraNext

SpecExplorer == ExplorerInit /\ [][ExplorerNext]_vars

\* the session of an ElectrumExplorer without its heartbeat, and the calls
\* that read or move the tip and the map
ElectrumBlockStatusNext ==
  \/ UserConnect
  \/ UserClose
  \/ \E k \in Connects : InitResolves(k)
  \/ \E k \in Connects : ConnectFails(k)
  \/ \E k \in Connects : \E height \in Heights : SubscribeResolves(k, height)
  \/ \E height \in Heights : HeaderNotification(height)
  \/ UserFetchBlockHeight
  \/ \E blockHeight \in Heights : ElectrumFetchBlockStatus(blockHeight)
  \/ \E j \in StatusCalls : HeaderResolves(j)
  \/ \E j \in StatusCalls : HeaderRejects(j)
  \/ \E height \in Heights : HistoryResolves(height)

\* fetchBlockStatus() of either explorer
BlockStatusNext == ElectrumBlockStatusNext \/ EsploraNext

SpecBlockStatus == ExplorerInit /\ [][BlockStatusNext]_vars

\* fetchTxHistory() of either explorer
TxHistoryNext == ElectrumTxHistoryNext \/ EsploraTxHistoryNext

SpecTxHistory == ExplorerInit /\ [][TxHistoryNext]_vars

(***************************************************************************)
(* Properties of the explorers                                             *)
(***************************************************************************)
\* C1: once the map holds an irreversible BlockStatus for a height, no step
\* replaces or changes it: the map holds the very same object afterwards.
C1_IrreversibleRecordKept ==
  [][\A h \in Heights :
       CachedIrreversible(blockStatusMap, h) =>
         blockStatusMap'[h] = blockStatusMap[h]]_vars

\* C2: a record fetchBlockStatus() has computed (not taken from the cache)
\* is irreversible exactly when tip - blockHeight + 1 >= irrevConfThresh,
\* tip being the explorer's tip height when the record was computed.
C2_IrreversibleFromTip ==
  \A j \in StatusCalls :
    (/\ statusCalls[j].pc = "done"
     /\ statusCalls[j].kind = "record"
     /\ ~statusCalls[j].cached
     /\ statusCalls[j].tip # Undefined) =>
      (statusCalls[j].result.irreversible <=>
         (statusCalls[j].tip - statusCalls[j].blockHeight + 1
            >= irrevConfThresh))

\* two computed records on either side of the threshold, as heights 8 and 9
\* are with threshold 3 and tip 10
C2_Witness ==
  \E j, k \in StatusCalls :
    /\ statusCalls[j].pc = "done" /\ statusCalls[k].pc = "done"
    /\ statusCalls[j].kind = "record" /\ statusCalls[k].kind = "record"
    /\ ~statusCalls[j].cached /\ ~statusCalls[k].cached
    /\ statusCalls[j].tip = statusCalls[k].tip
    /\ statusCalls[j].tip # Undefined
    /\ statusCalls[j].tip - statusCalls[j].blockHeight + 1 = irrevConfThresh
    /\ statusCalls[k].blockHeight = statusCalls[j].blockHeight + 1
    /\ statusCalls[j].result.irreversible
    /\ ~statusCalls[k].result.irreversible

\* C3: a header notification never lowers the tip of the Electrum explorer
\* (an undefined tip counts as below every height), and one whose height is
\* not above the tip leaves the tip as it is.
C3_TipNonDecreasing ==
  [][\A height \in Heights :
       HeaderNotification(height) =>
         /\ tipBlockHeight' >= tipBlockHeight
         /\ (tipBlockHeight # Undefined /\ height <= tipBlockHeight) =>
              tipBlockHeight' = tipBlockHeight]_vars

\* a header below the tip has been delivered after a higher one
C3_Witness ==
  /\ lowerHeaderSeen
  /\ tipBlockHeight = MaxHeight
  /\ subscribed \cap openClients # {}

\* C9: a heartbeat callback whose ping failed on the session its timer
\* belongs to, and that saw no close() or connect() of the user while it
\* slept, calls connect() when the sleep is over.
C9_ReconnectsAfterBackoff ==
  \A t \in Ticks :
    (ticks[t].end = "gaveUp" /\ ticks[t].pingInterval # NoTimer) =>
      ticks[t].interfered

\* C10: after a close(), whoever called it, and until the next connect(),
\* fetchBlockHeight() throws the not-connected error; once a connect() has
\* succeeded, and with a tip height to return, as there is after any earlier
\* successful fetchBlockHeight(), it returns the tip height.
C10_HeightFollowsSession ==
  /\ session = "closed" =>
       /\ FetchBlockHeight.kind = "throw"
       /\ FetchBlockHeight.error = "notConnected"
  /\ (session = "connected" /\ tipBlockHeight # Undefined) =>
       /\ FetchBlockHeight.kind = "height"
       /\ FetchBlockHeight.height = tipBlockHeight

\* a second connect() call has succeeded, which takes a close() after the
\* first one, and fetchBlockHeight() returns the tip
C10_Witness ==
  /\ session = "connected"
  /\ \E k \in Connects : k > 1 /\ connects[k].pc = "resolved"
  /\ FetchBlockHeight = [kind |-> "height", error |-> "none",
                         height |-> tipBlockHeight]

\* C11: after a close(), and until the next connect(), no heartbeat timer of
\* the explorer is armed.
C11_ClosedSessionIsQuiet ==
  session = "closed" => (pingInterval = NoTimer /\ liveTimers = {})

C13_FailedConnectDisconnects ==
  [][\A k \in Connects :
       ConnectFails(k) =>
         /\ connects'[k].pc = "rejected"
         /\ connects'[k].error = "connectFailed"
         /\ \A other \in Connects \ {k} : connects'[other] = connects[other]
         /\ openClients' = {}
         /\ k \notin liveTimers'
         /\ liveTimers' \subseteq liveTimers
         /\ client' = NoClient
         /\ pingInterval' = NoTimer
         /\ ConnectGuard' = "none"]_vars

\* a connect() call has failed in its handshake or subscription and the next
\* connect() call has been let in
C13_Witness ==
  \E k, later \in Connects :
    /\ k < later
    /\ connects[k].pc = "rejected"
    /\ connects[k].error = "connectFailed"
    /\ connects[later].pc \in {"init", "subscribe", "resolved"}
    /\ client = later

\* C14: a close() call of the user leaves the explorer with no client, no
\* open socket and no #pingInterval, and one made when there is no client
\* and no #pingInterval changes no field of the explorer.
C14_CloseIdempotent ==
  [][UserClose =>
       /\ client' = NoClient
       /\ pingInterval' = NoTimer
       /\ openClients' = {}
       /\ (client = NoClient /\ pingInterval = NoTimer) =>
            UNCHANGED <<client, pingInterval, openClients, liveTimers,
                        subscribed, tipBlockHeight, blockStatusMap,
                        connects>>]_vars

\* close() has been called on an explorer that never connected
C14_Witness ==
  /\ session = "closed"
  /\ \A k \in Connects : connects[k].pc = "idle"
  /\ client = NoClient
  /\ pingInterval = NoTimer

\* C15: a fetchTxHistory() call never returns when the server answered
\* with more than #maxTxPerScriptPubKey transactions (it throws 'Too many
\* transactions', or another error on the way), and a call that returns
\* gives one entry per transaction the server answered with, each at the
\* transaction's height: ElectrumExplorer in the server's order,
\* EsploraExplorer in the opposite order
C15_TooManyThrowsElseOneEntryPerTx ==
  \A i \in HistoryCalls :
    LET call == historyCalls[i]
        n == Len(call.served)
        max == IF backend = "esplora"
               THEN MaxTxPerScriptPubKey
               ELSE ElectrumMaxTxPerScriptPubKey
    IN /\ n > max =>
            /\ call.pc \in {"threw", "tip"}
            /\ call.pc = "threw" => call.error \in {"tooMany", "request"}
       /\ call.pc = "returned" =>
            /\ n <= max
            /\ Len(call.txHistory) = n
            /\ \A e \in 1..n :
                 call.txHistory[e].blockHeight =
                   IF backend = "esplora"
                   THEN call.served[n + 1 - e]
                   ELSE IF call.served[e] = -1 THEN 0 ELSE call.served[e]

C15_Witness ==
  \E i \in HistoryCalls :
    /\ backend = "esplora"
    /\ historyCalls[i].pc = "threw"
    /\ historyCalls[i].error = "tooMany"
    /\ Len(historyCalls[i].served) = MaxTxPerScriptPubKey + 1

\* C16: fetchBlockStatus(blockHeight) that finds no irreversible record in
\* the map and compares blockHeight with a tip below it (#tipBlockHeight of
\* ElectrumExplorer once it is defined, the tip #getTipBlockHeight() returns
\* in EsploraExplorer, from the cache or from the server) returns undefined
\* in that step and leaves the map as it is
C16_AboveTipReturnsAbsent ==
  [][/\ \A blockHeight \in Heights :
          (/\ \/ /\ ElectrumFetchBlockStatus(blockHeight)
                   /\ tipBlockHeight # Undefined
                   /\ blockHeight > tipBlockHeight
                \/ /\ EsploraFetchBlockStatus(blockHeight)
                   /\ ~MustFetchTip(0)
                   /\ blockHeight > cachedTipBlockHeight
            /\ ~CachedIrreversible(blockStatusMap, blockHeight)) =>
            /\ statusCalls'[FirstIdle(statusCalls, StatusCalls)] =
                 ReturnsAbsent([NoStatusCall EXCEPT
                                  !.blockHeight = blockHeight])
            /\ UNCHANGED blockStatusMap
     /\ \A j \in StatusCalls : \A tip \in Heights :
          (/\ TipResolves(j, tip)
           /\ statusCalls[j].pc = "tip1"
           /\ statusCalls[j].blockHeight > tip) =>
            /\ statusCalls'[j] = ReturnsAbsent(statusCalls[j])
            /\ UNCHANGED blockStatusMap]_vars

C16_Witness ==
  \E j \in StatusCalls :
    /\ backend = "esplora"
    /\ statusCalls[j].kind = "absent"
    /\ statusCalls[j].blockHeight > cachedTipBlockHeight
    /\ blockStatusMap[statusCalls[j].blockHeight] = NoRecord

\* C17: in a list fetchTxHistory() returned, the entry of a transaction
\* the server reported as unconfirmed (height -1 or 0 from an Electrum
\* server, no block_height from an Esplora server) has blockHeight 0 and
\* irreversible false, and so has every entry with blockHeight 0
C17_MempoolNeverIrreversible ==
  \A i \in HistoryCalls :
    LET call == historyCalls[i]
        n == Len(call.txHistory)
    IN call.pc = "returned" =>
         \A e \in 1..n :
           LET height == IF backend = "esplora"
                         THEN call.served[n + 1 - e]
                         ELSE call.served[e]
           IN (height \in {-1, 0} \/ call.txHistory[e].blockHeight = 0) =>
                /\ call.txHistory[e].blockHeight = 0
                /\ ~call.txHistory[e].irreversible

C17_Witness ==
  \E i \in HistoryCalls :
    /\ backend = "electrum"
    /\ historyCalls[i].pc = "returned"
    /\ historyCalls[i].served = <<-1>>
    /\ tipBlockHeight # Undefined
    /\ tipBlockHeight + 1 >= irrevConfThresh

\* C18: a fetchBlockStatus() call made while the ElectrumExplorer has no
\* client (before connect() or after close()) throws in that step, as
\* fetchBlockHeight() does
C18_NotConnectedThrows ==
  [][/\ IsClosed => FetchBlockHeight.error = "notConnected"
     /\ \A blockHeight \in Heights :
          (ElectrumFetchBlockStatus(blockHeight) /\ IsClosed) =>
            statusCalls'[FirstIdle(statusCalls, StatusCalls)] =
              Throws([NoStatusCall EXCEPT !.blockHeight = blockHeight])]_vars

\* C19: fetchBlockStatus(T) called in the state fetchBlockHeight() returns
\* T from (ElectrumExplorer: a client exists and #tipBlockHeight is T;
\* EsploraExplorer: the tip cache is fresh and holds T) does not return
\* undefined; a record it returns at once, and the record any call returns
\* at its end while the tip is still its height, has blockHeight T and, for
\* a threshold above 1, irreversible false
C19_StatusOfReturnedTip ==
  [][/\ \A T \in Heights :
          (\/ /\ ElectrumFetchBlockStatus(T)
              /\ FetchBlockHeight.kind = "height"
              /\ FetchBlockHeight.height = T
           \/ /\ EsploraFetchBlockStatus(T)
              /\ tipBlockHeightCacheTime = "fresh"
              /\ cachedTipBlockHeight = T) =>
            LET call == statusCalls'[FirstIdle(statusCalls, StatusCalls)] IN
            /\ call.kind \notin {"absent", "throw"}
            /\ call.kind = "record" =>
                 /\ call.result.blockHeight = T
                 /\ irrevConfThresh > 1 => ~call.result.irreversible
     /\ \A j \in StatusCalls :
          (\/ HeaderResolves(j)
           \/ BlockResolves(j) /\ ~MustFetchTip(statusCalls[j].blockHeight)
           \/ /\ statusCalls[j].pc = "tip2"
              /\ \E tip \in Heights : TipResolves(j, tip)) =>
            LET call == statusCalls'[j]
                tip == IF backend = "esplora"
                       THEN cachedTipBlockHeight'
                       ELSE tipBlockHeight'
            IN /\ call.kind = "record"
               /\ call.result.blockHeight = call.blockHeight
               /\ (irrevConfThresh > 1 /\ tip = call.blockHeight) =>
                    ~call.result.irreversible]_vars

\* C20: a fetchTxHistory() call given both an address and a scriptHash, or
\* neither, throws on its arguments in its first step, and a call given
\* exactly one of them does not throw on its arguments
C20_ExactlyOneArgument ==
  [][\A address, scriptHash \in BOOLEAN :
       (\/ ElectrumFetchTxHistory(address, scriptHash)
        \/ EsploraFetchTxHistory(address, scriptHash)) =>
         LET call == historyCalls'[FirstIdle(historyCalls, HistoryCalls)] IN
         (call.pc = "threw" /\ call.error = "arguments") <=>
           (address <=> scriptHash)]_vars

(***************************************************************************)
(* Properties of the RequestQueue                                          *)
(***************************************************************************)
BudgetsPositive ==
  maxAttemptsForSoftErrors >= 1 /\ maxAttemptsForHardErrors >= 1

\* C4: with budgets >= 1 and a transport that always answers with a retried
\* status, fetch() never makes more than maxAttemptsForSoftErrors transport
\* attempts, and when it is over it has made exactly that many and has
\* returned a response with a retried status: it has not thrown.
C4_SoftBudgetReturnsResponse ==
  \A c \in Calls :
    (transport = "softErrors" /\ BudgetsPositive) =>
      /\ calls[c].attempts <= maxAttemptsForSoftErrors
      /\ calls[c].pc = "done" =>
           /\ calls[c].outcome.kind = "response"
           /\ calls[c].outcome.status \in RetriedStatuses
           /\ calls[c].attempts = maxAttemptsForSoftErrors

C4_Witness ==
  \E c \in Calls :
    /\ transport = "softErrors"
    /\ maxAttemptsForSoftErrors = 3
    /\ maxAttemptsForHardErrors >= 1
    /\ calls[c].pc = "done"
    /\ calls[c].attempts = 3
    /\ calls[c].outcome = [kind |-> "response", status |-> 429, error |-> 0]

\* C5: with 1 <= hard budget <= soft budget and a transport that always
\* throws, fetch() never makes more than maxAttemptsForHardErrors transport
\* attempts, and when it is over it has made exactly that many and has
\* rethrown the error its last attempt threw.
C5_HardBudgetRethrows ==
  \A c \in Calls :
    (/\ transport = "throws"
     /\ maxAttemptsForHardErrors >= 1
     /\ maxAttemptsForHardErrors <= maxAttemptsForSoftErrors) =>
      /\ calls[c].attempts <= maxAttemptsForHardErrors
      /\ calls[c].pc = "done" =>
           /\ calls[c].outcome.kind = "throw"
           /\ calls[c].outcome.error = calls[c].attempts
           /\ calls[c].attempts = maxAttemptsForHardErrors

C5_Witness ==
  \E c \in Calls :
    /\ transport = "throws"
    /\ maxAttemptsForHardErrors = 2
    /\ maxAttemptsForSoftErrors = 3
    /\ calls[c].pc = "done"
    /\ calls[c].attempts = 2
    /\ calls[c].outcome = [kind |-> "throw", status |-> 0, error |-> 2]

\* C6: the number of admitted tasks never exceeds maxConcurrentTasks.
C6_CeilingRespected == concurrentTasks <= maxConcurrentTasks

\* the ceiling is reached and keeps a call waiting while the mode is Normal
C6_Witness ==
  /\ concurrentTasks = maxConcurrentTasks
  /\ ~mustThrottle
  /\ \E c \in Calls : calls[c].pc = "waiting"
  /\ \E c \in Calls : calls[c].pc = "fetching"

\* C7: from every state in which the queue is Throttled the mode returns to
\* Normal, given only that timers fire and transport calls complete.
C7_ThrottleNeverStuck == mustThrottle ~> ~mustThrottle

\* C8: a successful response recorded while Throttled that brings the number
\* of consecutive successes to unthrottleAfterOkCount leaves the mode Normal.
C8_NormalAfterOkCount ==
  [][(/\ mustThrottle
      /\ consecutiveOkResponses' = consecutiveOkResponses + 1
      /\ consecutiveOkResponses' >= unthrottleAfterOkCount)
     => ~mustThrottle']_vars


\* C21: a response whose status is not 2xx sets mustThrottle and is not
\* counted in consecutiveOkResponses
C21_Non2xxThrottles ==
  [][\A c \in Calls : \A status \in Statuses :
       (TransportResponds(c, status) /\ (status < 200 \/ status > 299)) =>
         /\ mustThrottle'
         /\ consecutiveOkResponses' = 0]_vars


\* C22: a step turns mustThrottle on only by an attempt that ends in a
\* retried status or a throw, every such attempt leaves it on with
\* consecutiveOkResponses 0, and a step turns it off only by the unthrottle
\* timer or by a response that is counted and takes consecutiveOkResponses
\* above unthrottleAfterOkCount
C22_ModeChangesOnlyBy ==
  [][/\ \A c \in Calls :
          (\/ TransportThrows(c)
           \/ \E status \in Statuses :
                IsSoftError(status) /\ TransportResponds(c, status)) =>
            (mustThrottle' /\ consecutiveOkResponses' = 0)
     /\ (~mustThrottle /\ mustThrottle') =>
          \E c \in Calls :
            \/ TransportThrows(c)
            \/ \E status \in Statuses :
                 IsSoftError(status) /\ TransportResponds(c, status)
     /\ (mustThrottle /\ ~mustThrottle') =>
          \/ UnthrottleTimerFires
          \/ /\ \E c \in Calls : \E status \in Statuses :
                  ~IsSoftError(status) /\ TransportResponds(c, status)
             /\ consecutiveOkResponses' = consecutiveOkResponses + 1
             /\ consecutiveOkResponses' > unthrottleAfterOkCount]_vars

\* the mode is back to Normal by the count while the timer is still pending
C22_Witness ==
  /\ ~mustThrottle
  /\ unthrottleTimeout
  /\ consecutiveOkResponses > unthrottleAfterOkCount


\* C23: after every attempt that ends in a retried status or a throw, the
\* last attempt of a task included, an unthrottle timer is pending
C23_TimerArmedAfterError ==
  [][\A c \in Calls :
       (\/ TransportThrows(c)
        \/ \E status \in Statuses :
             IsSoftError(status) /\ TransportResponds(c, status)) =>
         unthrottleTimeout']_vars


\* C24: with budgets >= 1, concurrentTasks counts the tasks whose attempt
\* is in flight: a task that sleeps before a retry is not counted
C24_PermitReleasedAfterAttempt ==
  BudgetsPositive =>
    concurrentTasks = Cardinality({c \in Calls : calls[c].pc = "fetching"})


\* C25: a step of fetch()'s admission loop counts the task in, and with
\* budgets >= 1 starts its first attempt, exactly when concurrentTasks is
\* below maxConcurrentTasks and mustThrottle is off; otherwise the call
\* waits for another throttleTime; no other step raises concurrentTasks
C25_AdmittedOnlyBelowCeilingAndNormal ==
  [][/\ \A c \in Calls :
          (Fetch(c) \/ AdmissionWake(c)) =>
            IF concurrentTasks < maxConcurrentTasks /\ ~mustThrottle
            THEN /\ concurrentTasks' = concurrentTasks + 1
                 /\ BudgetsPositive =>
                      /\ calls'[c].pc = "fetching"
                      /\ calls'[c].attempts = 1
            ELSE /\ concurrentTasks' = concurrentTasks
                 /\ calls'[c].pc = "waiting"
                 /\ calls'[c].attempts = 0
     /\ concurrentTasks' > concurrentTasks =>
          \E c \in Calls : Fetch(c) \/ AdmissionWake(c)]_vars

\* a call waits because the mode is Throttled although the ceiling is not
\* reached
C25_Witness ==
  \E c \in Calls :
    /\ calls[c].pc = "waiting"
    /\ mustThrottle
    /\ concurrentTasks < maxConcurrentTasks


\* C26: whatever the transport does, a fetch() call makes at most
\* maxAttemptsForSoftErrors transport attempts and at most
\* maxAttemptsForHardErrors of them throw; a throw that is retried raises
\* both counters of the task, and with budgets >= 1 the attempt that ends in
\* an error and brings the attempts to the soft budget, or the throws to the
\* hard budget, ends the call with that attempt's response or error
C26_ThrowCountsAgainstBothBudgets ==
  [][\A c \in Calls :
       /\ calls'[c].attempts <= maxAttemptsForSoftErrors
       /\ calls'[c].thrown <= maxAttemptsForHardErrors
       /\ (TransportThrows(c) /\ calls'[c].pc # "done") =>
            /\ calls'[c].softErrorAttempts = calls[c].softErrorAttempts + 1
            /\ calls'[c].hardErrorAttempts = calls[c].hardErrorAttempts + 1
       /\ (/\ BudgetsPositive
           /\ \/ TransportThrows(c)
              \/ \E status \in Statuses :
                   IsSoftError(status) /\ TransportResponds(c, status)
           /\ \/ calls'[c].attempts = maxAttemptsForSoftErrors
              \/ calls'[c].thrown = maxAttemptsForHardErrors) =>
            /\ calls'[c].pc = "done"
            /\ calls'[c].outcome.kind =
                 IF TransportThrows(c) THEN "throw" ELSE "response"]_vars

\* a call ended by the hard budget after two throws, with an attempt left
\* in the soft budget
C26_Witness ==
  \E c \in Calls :
    /\ calls[c].pc = "done"
    /\ calls[c].outcome.kind = "throw"
    /\ maxAttemptsForHardErrors = 2
    /\ calls[c].thrown = 2
    /\ calls[c].attempts = 2
    /\ maxAttemptsForSoftErrors = 3


\* C27: at most one reconnect sequence of the heartbeat is in progress: no
\* two callbacks that noted the same #pingInterval have both closed the
\* session and sleep before reconnecting.  (Callbacks that noted different
\* timers are not counted: the sleep lasts 1 s, and a timer set after the
\* first of them closed its session fires 14 s later at the earliest.)
C27_OneReconnectInProgress ==
  \A t, other \in DOMAIN ticks :
    (/\ t # other
     /\ ticks[t].pc = "backoff"
     /\ ticks[other].pc = "backoff") =>
      ticks[t].pingInterval # ticks[other].pingInterval


\* C28: when connect() succeeds and no header has been handled since the
\* call created its client, the tip is afterwards the height of the header
\* the subscription was answered with, also when the tip left by an earlier
\* session is higher (heights from 1: a header at height 0 is not taken as
\* a header).
C28_TipSeededOnReconnect ==
  [][\A k \in DOMAIN connects : \A height \in Heights \ {0} :
       (/\ SubscribeResolves(k, height)
        /\ session = "connecting"
        /\ connects'[k].pc = "resolved") =>
         tipBlockHeight' = height]_vars


\* C29: a header notification that raises the tip to a height stores the
\* record of that height in the cache in the same step, and a
\* fetchBlockStatus() call for the tip height made while the cache holds its
\* record returns that record without a request to the server.
C29_TipStatusFromCache ==
  [][/\ \A height \in Heights :
          (HeaderNotification(height) /\ RaisesTip(height)) =>
            blockStatusMap'[height].blockHeight = height
     /\ \A blockHeight \in Heights :
          (/\ ElectrumFetchBlockStatus(blockHeight)
           /\ blockHeight = tipBlockHeight
           /\ blockStatusMap[blockHeight].blockHeight = blockHeight
           /\ ~IsClosed) =>
            LET j == FirstIdle(statusCalls, StatusCalls) IN
            /\ statusCalls'[j].pc = "done"
            /\ statusCalls'[j].kind = "record"
            /\ statusCalls'[j].result = blockStatusMap[blockHeight]]_vars


\* C30: a fetchBlockStatus(h) call made after a fetchBlockStatus(h) call
\* has returned an irreversible record does not return undefined, and a
\* record it returns in its first step is irreversible.
C30_FinalityOnlyAdvances ==
  [][\A h \in Heights :
       (/\ ElectrumFetchBlockStatus(h) \/ EsploraFetchBlockStatus(h)
        /\ \E i \in StatusCalls :
             /\ statusCalls[i].pc = "done"
             /\ statusCalls[i].kind = "record"
             /\ statusCalls[i].blockHeight = h
             /\ statusCalls[i].result.irreversible) =>
         LET call == statusCalls'[FirstIdle(statusCalls, StatusCalls)] IN
         /\ call.kind # "absent"
         /\ call.kind = "record" => call.result.irreversible]_vars


\* C33: with budgets >= 1, concurrentTasks is the number of tasks that were
\* admitted and have neither returned nor thrown (they wait for the
\* transport or sleep before a retry); so it is never negative, and it is 0
\* when there is no such task.
C33_CountsAdmittedTasks ==
  BudgetsPositive =>
    /\ concurrentTasks =
         Cardinality({c \in Calls : calls[c].pc \in {"fetching", "sleep"}})
    /\ concurrentTasks >= 0

\* one task has left by rethrowing, another by returning a response, and
\* the counter is back at 0
C33_Witness ==
  /\ BudgetsPositive
  /\ concurrentTasks = 0
  /\ \E c, d \in Calls :
       /\ calls[c].pc = "done" /\ calls[c].outcome.kind = "throw"
       /\ calls[c].attempts > 1
       /\ calls[d].pc = "done" /\ calls[d].outcome.kind = "response"

\* C34: the step that makes the first transport attempt of a task is the
\* admission step itself (fetch() or a wake-up of the admission loop), taken
\* with mustThrottle false; a task that sleeps before an attempt has made an
\* attempt before.
C34_FirstAttemptAtAdmission ==
  [][\A c \in Calls :
       /\ (calls[c].attempts = 0 /\ calls'[c].attempts = 1) =>
            /\ Fetch(c) \/ AdmissionWake(c)
            /\ ~mustThrottle
            /\ calls'[c].pc = "fetching"
       /\ calls'[c].pc = "sleep" => calls'[c].attempts >= 1]_vars

\* a task sleeps before a retry while another one, admitted after the mode
\* went back to normal, makes its first attempt
C34_Witness ==
  \E c, d \in Calls :
    /\ calls[c].pc = "sleep"
    /\ calls[c].attempts >= 1
    /\ calls[d].pc = "fetching"
    /\ calls[d].attempts = 1

\* C35: with budgets >= 1, a fetch() call ends only in the step in which a
\* transport attempt of its task completes, and its outcome is that
\* attempt's response, whatever the status, or that attempt's exception;
\* the queue's own error is never the outcome.
C35_OutcomeOfFinalAttempt ==
  [][\A c \in Calls :
       (BudgetsPositive /\ calls[c].pc # "done" /\ calls'[c].pc = "done") =>
         \/ \E status \in Statuses :
              /\ TransportResponds(c, status)
              /\ calls'[c].outcome =
                   [kind |-> "response", status |-> status, error |-> 0]
         \/ /\ TransportThrows(c)
            /\ calls'[c].outcome =
                 [kind |-> "throw", status |-> 0, error |-> calls[c].attempts]]_vars

\* a call has returned the soft-error response of its last attempt
C35_Witness ==
  \E c \in Calls :
    /\ calls[c].pc = "done"
    /\ calls[c].outcome.kind = "response"
    /\ IsSoftError(calls[c].outcome.status)
    /\ calls[c].attempts = maxAttemptsForSoftErrors
    /\ calls[c].attempts > 1


\* C32: a connect() call that resumes when #client is the client of a newer
\* connect() call, whether its request failed or succeeded, leaves the newer
\* session alone: the client, its socket, its header listener and the
\* heartbeat stay as they were.
C32_StaleConnectLeavesNewerSession ==
  [][\A k \in DOMAIN connects :
       (/\ client # NoClient
        /\ client # k
        /\ \/ InitResolves(k)
           \/ ConnectFails(k)
           \/ \E height \in Heights : SubscribeResolves(k, height)) =>
         UNCHANGED <<client, openClients, subscribed, pingInterval,
                     liveTimers>>]_vars

\* C36: no interval timer is armed besides the one in #pingInterval, and
\* none is armed while there is no client.
C36_OneLiveTimer ==
  /\ liveTimers \subseteq {pingInterval} \ {NoTimer}
  /\ liveTimers # {} => client # NoClient


\* C31: in the step in which a fetchTxHistory() call returns, every entry
\* of the list with blockHeight h > 0 has irreversible equal to
\* tip - h + 1 >= irrevConfThresh for the tip the explorer holds after that
\* step (#tipBlockHeight, or #cachedTipBlockHeight of the EsploraExplorer).
C31_EntriesClassifiedAgainstOneTip ==
  [][\A i \in HistoryCalls :
       (historyCalls[i].pc # "returned" /\ historyCalls'[i].pc = "returned") =>
         LET txHistory == historyCalls'[i].txHistory
             tip == IF backend = "esplora"
                    THEN cachedTipBlockHeight'
                    ELSE tipBlockHeight'
         IN \A e \in 1..Len(txHistory) :
              txHistory[e].blockHeight > 0 =>
                txHistory[e].irreversible =
                  Irreversible(tip, txHistory[e].blockHeight)]_vars


\* C37: no step of an ElectrumExplorer lowers the tip or makes a defined
\* tip undefined, whatever the step is (connect(), close(), a header, a
\* history); and a fetchTxHistory() call that returns with the tip defined
\* leaves the tip at the highest of the old tip and the heights of the
\* history.
C37_TipNeverDecreases ==
  [][backend = "electrum" =>
       /\ tipBlockHeight # Undefined =>
            /\ tipBlockHeight' # Undefined
            /\ tipBlockHeight' >= tipBlockHeight
       /\ \A i \in HistoryCalls : \A history \in Histories :
            (/\ GetHistoryResolves(i, history)
             /\ historyCalls'[i].pc = "returned"
             /\ tipBlockHeight # Undefined) =>
              /\ \A e \in 1..Len(history) : history[e] <= tipBlockHeight'
              /\ \/ tipBlockHeight' = tipBlockHeight
                 \/ \E e \in 1..Len(history) : history[e] = tipBlockHeight']_vars

\* a history has raised the tip to a height no header was seen for, and the
\* session was closed afterwards
C37_Witness ==
  \E i \in HistoryCalls :
    /\ backend = "electrum"
    /\ historyCalls[i].pc = "returned"
    /\ \E e \in 1..Len(historyCalls[i].served) :
         historyCalls[i].served[e] = MaxHeight
    /\ tipBlockHeight = MaxHeight
    /\ blockStatusMap[MaxHeight] = NoRecord
    /\ session = "closed"


\* C38: in an ElectrumExplorer every record of the cache is at a height at
\* or below the tip, and every irreversible one has at least irrevConfThresh
\* confirmations under the tip.
C38_CacheWithinTip ==
  backend = "electrum" =>
    \A h \in Heights :
      blockStatusMap[h] # NoRecord =>
        /\ tipBlockHeight # Undefined
        /\ blockStatusMap[h].blockHeight <= tipBlockHeight
        /\ blockStatusMap[h].irreversible =>
             tipBlockHeight - blockStatusMap[h].blockHeight + 1
               >= irrevConfThresh


\* C39: when every request is answered, a fetchTxHistory() call of the
\* EsploraExplorer ends: it returns or throws.  An empty page ends it, a
\* page that is not empty adds to the transactions received, and while the
\* call waits for a page it has received at most #maxTxPerScriptPubKey of
\* them, so it asks for at most #maxTxPerScriptPubKey + 2 pages.
C39_PaginationTerminates ==
  /\ [](\A i \in HistoryCalls :
          historyCalls[i].pc = "page" =>
            Len(historyCalls[i].served) <= MaxTxPerScriptPubKey)
  /\ [][\A i \in HistoryCalls : \A page \in Pages :
          PageResolves(i, page) =>
            IF page = <<>>
            THEN historyCalls'[i].pc = "returned"
            ELSE Len(historyCalls'[i].served) > Len(historyCalls[i].served)]_vars
  /\ \A i \in HistoryCalls :
       historyCalls[i].pc \in {"page", "tip"} ~>
         historyCalls[i].pc \in {"returned", "threw"}

\* a call has returned on the empty page that followed a page with a
\* transaction
C39_Witness ==
  \E i \in HistoryCalls :
    /\ backend = "esplora"
    /\ historyCalls[i].pc = "returned"
    /\ Len(historyCalls[i].served) = MaxTxPerScriptPubKey
    /\ Len(historyCalls[i].txHistory) = MaxTxPerScriptPubKey
    /\ MaxTxPerScriptPubKey > 0

====
